---- MODULE Spec2Model ----
(***************************************************************************)
(* PSPTool (psptool/psptool.py) and the psptool2 command line              *)
(* (psptool2/__main__.py): creation of a fresh ROM image, loading and      *)
(* re-serialising a ROM, the inventory listing and the replace-entry       *)
(* workflow.                                                               *)
(*                                                                         *)
(* Byte strings are sequences of numbers 0..255.  The 16 MiB bytearray of  *)
(* create_file is kept run-length encoded (a sequence of [b, n] runs), so  *)
(* that the real length 0x1000000 is used unscaled.                        *)
(***************************************************************************)
EXTENDS Integers, Sequences, FiniteSets, TLC

VARIABLES cf_args, cf_result, fet_base,
          fs, rom_layout, pt, input_bytes, stdout, raised,
          args, calls, wrote

vars == <<cf_args, cf_result, fet_base, fs, rom_layout, pt, input_bytes,
          stdout, raised, args, calls, wrote>>

cf_vars == <<cf_args, cf_result, fet_base>>
io_vars == <<fs, rom_layout, pt, input_bytes, stdout, raised, args, calls, wrote>>

(***************************************************************************)
(* Bounds of the model.                                                    *)
(***************************************************************************)
MaxFieldLen == 4      \* longest version field drawn
MaxParts == 3         \* most parts of an agesa_version drawn
MaxPayload == 3       \* longest replacement payload drawn
MaxFree == 2          \* most free bytes after the entries of a drawn ROM

Min(a, b) == IF a < b THEN a ELSE b
Max(a, b) == IF a > b THEN a ELSE b

None == "None"

(***************************************************************************)
(* Python values used by create_file.                                      *)
(* A version field is a bytes or a str object: [kind, chars].              *)
(***************************************************************************)
Chars == {33, 48, 49, 233}     \* '!', '0', '1' and a non-ASCII character

RECURSIVE SeqsUpTo(_, _)
SeqsUpTo(S, n) ==
    IF n = 0 THEN {<<>>}
    ELSE LET shorter == SeqsUpTo(S, n - 1)
         IN shorter \cup {Append(s, c) : s \in {t \in shorter : Len(t) = n - 1}, c \in S}

bytes(chars) == [kind |-> "bytes", chars |-> chars]
str(chars) == [kind |-> "str", chars |-> chars]

FirstFields == {[kind |-> k, chars |-> c] : k \in {"bytes", "str"}, c \in SeqsUpTo(Chars, MaxFieldLen)}
OtherFields == {bytes(<<66>>), str(<<66>>), str(<<>>)}

RECURSIVE Tails(_)
Tails(n) ==
    IF n = 0 THEN {<<>>}
    ELSE Tails(n - 1) \cup {Append(t, f) : t \in {u \in Tails(n - 1) : Len(u) = n - 1}, f \in OtherFields}

Versions == {<<>>} \cup {<<f>> \o t : f \in FirstFields, t \in Tails(MaxParts - 1)}

RomLens == {0, 8388608, 16777215, 16777216, 16777217}

\* x != y of Python for a version field x and a bytes literal y: a str never
\* equals a bytes object.
PyNe(x, y) == x.kind # y.kind \/ x.chars # y.chars

\* x.encode('ascii'): bytes has no encode; a str encodes iff all ASCII.
encode(x) ==
    IF x.kind = "bytes" THEN [exc |-> "AttributeError", val |-> <<>>]
    ELSE IF \E i \in 1..Len(x.chars) : x.chars[i] > 127
         THEN [exc |-> "UnicodeEncodeError", val |-> <<>>]
         ELSE [exc |-> None, val |-> x.chars]

(***************************************************************************)
(* bytearray, run-length encoded.                                          *)
(***************************************************************************)
Repeat(b, n) == IF n > 0 THEN <<[b |-> b, n |-> n]>> ELSE <<>>

Runs(s) == [i \in 1..Len(s) |-> [b |-> s[i], n |-> 1]]

RECURSIVE RunsLen(_)
RunsLen(r) == IF r = <<>> THEN 0 ELSE Head(r).n + RunsLen(Tail(r))

RECURSIVE RunsTake(_, _)
RunsTake(r, k) ==
    IF r = <<>> \/ k <= 0 THEN <<>>
    ELSE IF Head(r).n <= k THEN <<Head(r)>> \o RunsTake(Tail(r), k - Head(r).n)
    ELSE <<[b |-> Head(r).b, n |-> k]>>

RECURSIVE RunsDrop(_, _)
RunsDrop(r, k) ==
    IF r = <<>> THEN <<>>
    ELSE IF k <= 0 THEN r
    ELSE IF Head(r).n <= k THEN RunsDrop(Tail(r), k - Head(r).n)
    ELSE <<[b |-> Head(r).b, n |-> Head(r).n - k]>> \o Tail(r)

\* buf[start:stop] = data for non-negative start, stop: the bounds are
\* clamped to len(buf), an inverted slice is the empty slice at start, and
\* the slice is REPLACED by data, whatever their lengths.
SliceAssign(buf, start, stop, data) ==
    LET n == RunsLen(buf)
        lo == Min(start, n)
        hi == Max(lo, Min(stop, n))
    IN RunsTake(buf, lo) \o Runs(data) \o RunsDrop(buf, hi)

\* b'\x00'.join(parts)
RECURSIVE Join(_)
Join(parts) ==
    IF parts = <<>> THEN <<>>
    ELSE IF Len(parts) = 1 THEN parts[1]
    ELSE parts[1] \o <<0>> \o Join(Tail(parts))

(***************************************************************************)
(* Constants of Blob and Fet used by create_file.                          *)
(***************************************************************************)
AGESA_MAGIC == <<65, 71, 69, 83, 65>>
AGESA_VERSION_STRUCTURE == <<<<>>, <<>>, <<>>, <<>>>>
FIRMWARE_ENTRY_MAGIC == <<170, 85, 170, 85>>
FetBaseCandidates == {0, 2, 131072, 16384000}

(***************************************************************************)
(* PSPTool.create_file                                                     *)
(***************************************************************************)
CfRaise(exc, allocated) ==
    [exc |-> exc, allocated |-> allocated, writes |-> 0, buffer |-> <<>>, pt |-> FALSE]

\* Lines 53-66: allocate, write the AGESA header and the table magic,
\* construct the PSPTool.
fresh_image(rom_len, agesa_version) ==
    LET _fresh_bytes == Repeat(255, rom_len)
        e0 == encode(agesa_version[1])
        e1 == encode(agesa_version[2])
        _version_list == [AGESA_VERSION_STRUCTURE EXCEPT ![2] = e0.val, ![4] = e1.val]
        _version_bytes == AGESA_MAGIC \o Join(_version_list)
        b1 == SliceAssign(_fresh_bytes, 0, Len(_version_bytes), _version_bytes)
        b2 == SliceAssign(b1, fet_base, Len(FIRMWARE_ENTRY_MAGIC), FIRMWARE_ENTRY_MAGIC)
    IN IF e0.exc # None THEN CfRaise(e0.exc, TRUE)
       ELSE IF e1.exc # None THEN CfRaise(e1.exc, TRUE)
       ELSE [exc |-> None, allocated |-> TRUE, writes |-> 2, buffer |-> b2, pt |-> TRUE]

\* create_file refusing only the 8 MiB size
create_file_only_8mib(rom_len, agesa_version) ==
    IF rom_len = 8388608 THEN
        CfRaise("NotImplementedError", FALSE)
    ELSE IF Len(agesa_version) # 2 THEN
        CfRaise("ValueError", FALSE)
    ELSE IF Len(agesa_version[1].chars) # 3
            \/ (Len(agesa_version[1].chars) = 3 /\ PyNe(agesa_version[1], bytes(<<33>>)))
    THEN CfRaise("ValueError", FALSE)
    ELSE fresh_image(rom_len, agesa_version)

\* create_file with the two width tests of line 48 joined by `and`
create_file_and(rom_len, agesa_version) ==
    IF rom_len # 16777216 THEN
        CfRaise("NotImplementedError", FALSE)
    ELSE IF Len(agesa_version) # 2 THEN
        CfRaise("ValueError", FALSE)
    ELSE IF Len(agesa_version[1].chars) # 3
            /\ (Len(agesa_version[1].chars) = 3 /\ PyNe(agesa_version[1], bytes(<<33>>)))
    THEN CfRaise("ValueError", FALSE)
    ELSE fresh_image(rom_len, agesa_version)

create_file(rom_len, agesa_version) ==
    IF rom_len # 16777216 THEN
        CfRaise("NotImplementedError", FALSE)
    ELSE IF Len(agesa_version) # 2 THEN
        CfRaise("ValueError", FALSE)
    ELSE IF Len(agesa_version[1].chars) # 3
            \/ (Len(agesa_version[1].chars) = 3 /\ PyNe(agesa_version[1], bytes(<<33>>)))
    THEN CfRaise("ValueError", FALSE)
    ELSE fresh_image(rom_len, agesa_version)

NoArgs == [rom_len |-> 0, agesa_version |-> <<>>]
NoResult == [exc |-> "NotCalled", allocated |-> FALSE, writes |-> 0, buffer |-> <<>>, pt |-> FALSE]

IoIdle ==
    /\ fs = <<>> /\ rom_layout = <<>> /\ pt = <<>> /\ input_bytes = <<>>
    /\ stdout = <<>> /\ raised = None /\ args = <<>> /\ calls = <<>> /\ wrote = <<>>

InitCreate ==
    /\ cf_args = NoArgs
    /\ cf_result = NoResult
    /\ fet_base \in FetBaseCandidates
    /\ IoIdle

\* One call of the class method, from the state where none was made (the
\* calls are independent of each other: create_file keeps no state).
CreateFile ==
    /\ cf_result = NoResult
    /\ \E rom_len \in RomLens, agesa_version \in Versions :
        /\ cf_args' = [rom_len |-> rom_len, agesa_version |-> agesa_version]
        /\ cf_result' = create_file(rom_len, agesa_version)
        /\ UNCHANGED <<fet_base>>
        /\ UNCHANGED io_vars

NextCreate == CreateFile

SpecCreate == InitCreate /\ [][NextCreate]_vars

(***************************************************************************)
(* The image-synthesis block of create_file on the versions its docstring  *)
(* and error messages admit: two str parts, the first an exclamation mark  *)
(* followed by exactly 2 characters.                                       *)
(***************************************************************************)
DocumentedVersions ==
    {v \in Versions : /\ Len(v) = 2
                      /\ v[1].kind = "str" /\ v[2].kind = "str"
                      /\ Len(v[1].chars) = 3 /\ v[1].chars[1] = 33}

FreshImage ==
    /\ cf_result = NoResult
    /\ \E agesa_version \in DocumentedVersions :
        /\ cf_args' = [rom_len |-> 16777216, agesa_version |-> agesa_version]
        /\ cf_result' = fresh_image(16777216, agesa_version)
        /\ UNCHANGED <<fet_base>>
        /\ UNCHANGED io_vars

NextFresh == FreshImage

SpecFresh == InitCreate /\ [][NextFresh]_vars

(***************************************************************************)
(* ROM images.  The parser of the image (Blob, Fet, Directory, Entry) is   *)
(* described by what it finds: a layout names the tables, directories and  *)
(* entries of a ROM, and Build is the ROM with that layout.  Fields are    *)
(* one byte wide: a directory table is a count byte followed by one        *)
(* (address, size) descriptor per entry.                                   *)
(***************************************************************************)
PlainEntry == "Entry"
HeaderEntry == "HeaderEntry"

\* class of an entry: its variant, its flags, the outcome of its signature
\* check and (HeaderEntry only) size_signed, size_uncompressed, rom_size.
EntryClasses ==
    { [kind |-> PlainEntry, is_legacy |-> FALSE, compressed |-> FALSE, signed |-> FALSE,
       sig |-> "ok", encrypted |-> FALSE, ext |-> <<>>],
      [kind |-> PlainEntry, is_legacy |-> TRUE, compressed |-> FALSE, signed |-> FALSE,
       sig |-> "ok", encrypted |-> FALSE, ext |-> <<>>],
      [kind |-> PlainEntry, is_legacy |-> FALSE, compressed |-> FALSE, signed |-> FALSE,
       sig |-> "ok", encrypted |-> TRUE, ext |-> <<>>],
      [kind |-> HeaderEntry, is_legacy |-> FALSE, compressed |-> FALSE, signed |-> FALSE,
       sig |-> "ok", encrypted |-> FALSE, ext |-> <<0, 0, 0>>],
      [kind |-> HeaderEntry, is_legacy |-> FALSE, compressed |-> TRUE, signed |-> TRUE,
       sig |-> "ok", encrypted |-> FALSE, ext |-> <<1, 2, 3>>],
      [kind |-> HeaderEntry, is_legacy |-> FALSE, compressed |-> FALSE, signed |-> TRUE,
       sig |-> "bad", encrypted |-> TRUE, ext |-> <<1, 1, 2>>],
      [kind |-> HeaderEntry, is_legacy |-> FALSE, compressed |-> FALSE, signed |-> TRUE,
       sig |-> "missing_key", encrypted |-> FALSE, ext |-> <<1, 1, 1>>] }

PlainClass == CHOOSE c \in EntryClasses :
    c.kind = PlainEntry /\ ~c.is_legacy /\ ~c.encrypted

\* which entries each directory lists, and how the directories are grouped
\* into firmware entry tables
Shapes ==
    { [ne |-> 0, dirs |-> <<>>, fets |-> <<>>],
      [ne |-> 1, dirs |-> <<<<1>>>>, fets |-> <<<<1>>>>],
      [ne |-> 2, dirs |-> <<<<1, 2>>>>, fets |-> <<<<1>>>>],
      [ne |-> 1, dirs |-> <<<<1>>, <<1>>>>, fets |-> <<<<1, 2>>>>],
      [ne |-> 2, dirs |-> <<<<1, 2>>, <<2>>>>, fets |-> <<<<1>>, <<2>>>>],
      [ne |-> 2, dirs |-> <<<<2>>, <<1>>>>, fets |-> <<<<1, 2>>>>] }

RECURSIVE TableEnd(_, _)
TableEnd(dirs, k) == IF k = 0 THEN 0 ELSE TableEnd(dirs, k - 1) + 1 + 2 * Len(dirs[k])

RECURSIVE EntryEnd(_, _, _, _)
EntryEnd(start, sizes, gaps, i) ==
    IF i = 0 THEN start ELSE EntryEnd(start, sizes, gaps, i - 1) + gaps[i] + sizes[i]

MkLayout(shape, sizes, gaps, classes, free) ==
    LET start == TableEnd(shape.dirs, Len(shape.dirs))
    IN [ fets |-> shape.fets,
         directories |-> [k \in 1..Len(shape.dirs) |->
                             [address |-> TableEnd(shape.dirs, k - 1),
                              entries |-> shape.dirs[k],
                              secondary_directory_address |-> 0]],
         entries |-> [i \in 1..shape.ne |->
                         [address |-> EntryEnd(start, sizes, gaps, i) - sizes[i],
                          size |-> sizes[i],
                          type |-> i,
                          class |-> classes[i]]],
         length |-> EntryEnd(start, sizes, gaps, shape.ne) + free ]

EmptyLayout == MkLayout([ne |-> 0, dirs |-> <<>>, fets |-> <<>>], <<>>, <<>>, <<>>, 0)

\* offsets of the address and size fields of slot j of a directory table
DescAddrOff(dir, j) == dir.address + 1 + 2 * (j - 1)
DescSizeOff(dir, j) == DescAddrOff(dir, j) + 1

TableBytes(dir) == dir.address .. (dir.address + 2 * Len(dir.entries))
EntryRange(e) == e.address .. (e.address + e.size - 1)

\* the ROM with this layout: tables, entry contents 16*i + offset, free
\* space 0xFF
Build(layout) ==
    [q \in 1..layout.length |->
        LET p == q - 1
            D == layout.directories
            E == layout.entries
        IN IF \E k \in DOMAIN D : p = D[k].address
           THEN LET k == CHOOSE k \in DOMAIN D : p = D[k].address IN Len(D[k].entries)
           ELSE IF \E k \in DOMAIN D, j \in 1..2 : j \in DOMAIN D[k].entries /\ p = DescAddrOff(D[k], j)
           THEN LET kj == CHOOSE kj \in (DOMAIN D) \X (1..2) :
                        kj[2] \in DOMAIN D[kj[1]].entries /\ p = DescAddrOff(D[kj[1]], kj[2])
                IN E[D[kj[1]].entries[kj[2]]].address
           ELSE IF \E k \in DOMAIN D, j \in 1..2 : j \in DOMAIN D[k].entries /\ p = DescSizeOff(D[k], j)
           THEN LET kj == CHOOSE kj \in (DOMAIN D) \X (1..2) :
                        kj[2] \in DOMAIN D[kj[1]].entries /\ p = DescSizeOff(D[kj[1]], kj[2])
                IN E[D[kj[1]].entries[kj[2]]].size
           ELSE IF \E i \in DOMAIN E : p \in EntryRange(E[i])
           THEN LET i == CHOOSE i \in DOMAIN E : p \in EntryRange(E[i])
                IN 16 * i + (p - E[i].address)
           ELSE 255]

Layouts(Sizes, Gaps, Classes, Frees) ==
    { MkLayout(sh, sz, gp, cl, fr) :
        sh \in Shapes, sz \in [1..2 -> Sizes], gp \in [1..2 -> Gaps],
        cl \in [1..2 -> Classes], fr \in Frees }

\* Blob(rom_bytes, len(rom_bytes), psptool): the buffer and the views the
\* scan of the buffer yields
Blob(rom_bytes, layout) ==
    [ buffer |-> rom_bytes,
      fets |-> layout.fets,
      directories |-> layout.directories,
      entries |-> layout.entries ]

NoPt == [loaded |-> FALSE, blob |-> Blob(<<>>, EmptyLayout), filename |-> None]

(***************************************************************************)
(* The file system: each name is a file that exists or not.  "nodir/x"     *)
(* lies in a directory that does not exist: it cannot be read or created.  *)
(***************************************************************************)
FileNames == {"rom", "sub", "out", "nodir/x"}
NoFile == [exists |-> FALSE, data |-> <<>>]
File(data) == [exists |-> TRUE, data |-> data]

(***************************************************************************)
(* PSPTool.from_file, PSPTool.__init__, PSPTool.to_file                    *)
(***************************************************************************)
PSPTool(rom_bytes, layout) ==
    [loaded |-> TRUE, blob |-> Blob(rom_bytes, layout), filename |-> None]

from_file(files, filename, layout) ==
    IF ~files[filename].exists
    THEN [exc |-> "FileNotFoundError", pt |-> NoPt]
    ELSE LET rom_bytes == files[filename].data
         IN [exc |-> None,
             pt |-> [PSPTool(rom_bytes, layout) EXCEPT !.filename = filename]]

get_buffer(blob) == blob.buffer

to_file_append(files, psp, filename) ==
    IF filename = None
    THEN [exc |-> "TypeError", fs |-> files, wrote |-> <<>>]
    ELSE IF filename = "nodir/x"
    THEN [exc |-> "FileNotFoundError", fs |-> files, wrote |-> <<>>]
    ELSE [exc |-> None,
          fs |-> [files EXCEPT ![filename] = File(files[filename].data \o get_buffer(psp.blob))],
          wrote |-> <<filename>>]

to_file(files, psp, filename) ==
    IF filename = None
    THEN [exc |-> "TypeError", fs |-> files, wrote |-> <<>>]
    ELSE IF filename = "nodir/x"
    THEN [exc |-> "FileNotFoundError", fs |-> files, wrote |-> <<>>]
    ELSE [exc |-> None,
          fs |-> [files EXCEPT ![filename] = File(get_buffer(psp.blob))],
          wrote |-> <<filename>>]

(***************************************************************************)
(* Inventory listing: PSPTool.ls, ls_dir, ls_entries.                      *)
(* A printed table is [kind, ids, rows, verbose]; ids names the entries    *)
(* the rows were made from.  hex(v) is <<"0x", v>> and '' is <<>>.         *)
(***************************************************************************)
Hex(v) == <<"0x", v>>
Empty == <<>>

\* list indexing of Python, negative indices included
InRange(seq, i) == -Len(seq) <= i /\ i < Len(seq)
PyGet(seq, i) == IF i >= 0 THEN seq[i + 1] ELSE seq[Len(seq) + i + 1]

\* sorted(self.blob.unique_entries): the entries by ascending address
RECURSIVE SortedIds(_, _)
SortedIds(entries, ids) ==
    IF ids = {} THEN <<>>
    ELSE LET m == CHOOSE i \in ids : \A j \in ids :
                      entries[i].address < entries[j].address
                      \/ (entries[i].address = entries[j].address /\ i <= j)
         IN <<m>> \o SortedIds(entries, ids \ {m})

\* lines 117-127
info(entry) ==
    (IF entry.class.compressed THEN <<"compressed">> ELSE <<>>)
    \o (IF entry.class.signed
        THEN <<"signed">> \o (IF entry.class.sig = "ok" THEN <<"verified">> ELSE <<>>)
        ELSE <<>>)
    \o (IF entry.class.is_legacy THEN <<"legacy Header">> ELSE <<>>)
    \o (IF entry.class.encrypted THEN <<"encrypted">> ELSE <<>>)

\* lines 129-148: the row of one entry (the readable magic, version and md5
\* columns do not depend on the model's state and are left out)
row_zero(index, entry) ==
    [ index |-> index,
      address |-> Hex(entry.address),
      size |-> Hex(entry.size),
      type |-> entry.type,
      info |-> info(entry),
      ext |-> IF entry.class.kind = HeaderEntry
              THEN <<Hex(entry.class.ext[1]), Hex(entry.class.ext[2]), Hex(entry.class.ext[3])>>
              ELSE <<Hex(0), Hex(0), Hex(0)>> ]

row(index, entry) ==
    [ index |-> index,
      address |-> Hex(entry.address),
      size |-> Hex(entry.size),
      type |-> entry.type,
      info |-> info(entry),
      ext |-> IF entry.class.kind = HeaderEntry
              THEN <<Hex(entry.class.ext[1]), Hex(entry.class.ext[2]), Hex(entry.class.ext[3])>>
              ELSE <<Empty, Empty, Empty>> ]

\* ls_entries: verify_signature raises MissingKey when the signing key is
\* not found, and then nothing is printed
ls_entries(blob, entries, verbose) ==
    LET ids == IF entries = None THEN SortedIds(blob.entries, DOMAIN blob.entries) ELSE entries
    IN IF \E i \in 1..Len(ids) :
              blob.entries[ids[i]].class.signed /\ blob.entries[ids[i]].class.sig = "missing_key"
       THEN [exc |-> "MissingKey", out |-> <<>>]
       ELSE [exc |-> None,
             out |-> << [kind |-> "entries", ids |-> ids, verbose |-> verbose,
                         rows |-> [i \in 1..Len(ids) |-> row(i - 1, blob.entries[ids[i]])]] >>]

ls_dir(blob, fet, directory_index, verbose) ==
    IF ~InRange(fet, directory_index)
    THEN [exc |-> "IndexError", out |-> <<>>]
    ELSE ls_entries(blob, blob.directories[PyGet(fet, directory_index)].entries, verbose)

\* the (fet, index) pairs in the order ls visits them
RECURSIVE Visits(_)
Visits(fets) ==
    IF fets = <<>> THEN <<>>
    ELSE [i \in 1..Len(Head(fets)) |-> <<Head(fets), i - 1>>] \o Visits(Tail(fets))

RECURSIVE ls_from(_, _, _)
ls_from(blob, visits, verbose) ==
    IF visits = <<>> THEN [exc |-> None, out |-> <<>>]
    ELSE LET fet == Head(visits)[1]
             index == Head(visits)[2]
             directory == blob.directories[PyGet(fet, index)]
             t == [kind |-> "directory", ids |-> <<>>, verbose |-> verbose,
                   rows |-> << [index |-> index, address |-> Hex(directory.address),
                                secondary |-> IF directory.secondary_directory_address # 0
                                              THEN Hex(directory.secondary_directory_address)
                                              ELSE <<"--">>] >>]
             d == ls_dir(blob, fet, index, verbose)
         IN IF d.exc # None THEN [exc |-> d.exc, out |-> <<t>>]
            ELSE LET rest == ls_from(blob, Tail(visits), verbose)
                 IN [exc |-> rest.exc, out |-> <<t>> \o d.out \o rest.out]

ls(blob, verbose) == ls_from(blob, Visits(blob.fets), verbose)

(***************************************************************************)
(* Mutation engine: Entry.get_address, Entry.move_buffer, Entry.set_bytes  *)
(* over the arena (ByteArena.relocate, Directory descriptor rewrite).      *)
(***************************************************************************)
\* arena[address : address + len(data)] = data, within bounds
Write(buffer, address, data) ==
    [q \in 1..Len(buffer) |->
        IF q - 1 >= address /\ q - 1 < address + Len(data)
        THEN data[q - address] ELSE buffer[q]]

get_address(blob, eid) == blob.entries[eid].address

\* the directories (and slots) that reference an entry
References(blob, eid) ==
    {kj \in (DOMAIN blob.directories) \X (1..2) :
        kj[2] \in DOMAIN blob.directories[kj[1]].entries
        /\ blob.directories[kj[1]].entries[kj[2]] = eid}

\* destinations of a relocation: the new range lies in the arena and meets
\* no other entry's live range and no directory table
Destinations(blob, eid, new_length) ==
    {a \in 0..Len(blob.buffer) :
        /\ a + new_length <= Len(blob.buffer)
        /\ \A i \in DOMAIN blob.entries :
              i # eid => (a .. (a + new_length - 1)) \cap EntryRange(blob.entries[i]) = {}
        /\ \A k \in DOMAIN blob.directories :
              (a .. (a + new_length - 1)) \cap TableBytes(blob.directories[k]) = {}}

\* ByteArena.relocate: pick is the destination the allocator would choose;
\* it is taken when it is a free destination, else the hint, else the lowest
relocate(blob, eid, hint, new_length, pick) ==
    LET dests == Destinations(blob, eid, new_length)
    IN IF dests = {} THEN -1
       ELSE IF pick \in dests THEN pick
       ELSE IF hint \in dests THEN hint
       ELSE CHOOSE a \in dests : \A b \in dests : a <= b

RECURSIVE RewriteDescriptors(_, _, _, _, _)
RewriteDescriptors(buffer, blob, refs, address, size) ==
    IF refs = {} THEN buffer
    ELSE LET kj == CHOOSE r \in refs : TRUE
             dir == blob.directories[kj[1]]
         IN RewriteDescriptors(Write(buffer, DescAddrOff(dir, kj[2]), <<address, size>>),
                               blob, refs \ {kj}, address, size)

move_buffer(blob, eid, new_address_hint, new_length, pick) ==
    LET e == blob.entries[eid]
        dest == relocate(blob, eid, new_address_hint, new_length, pick)
        keep == Min(e.size, new_length)
        content == [i \in 1..new_length |->
                       IF i <= keep THEN blob.buffer[e.address + i] ELSE 0]
        copied == Write(blob.buffer, dest, content)
        rewritten == RewriteDescriptors(copied, blob, References(blob, eid), dest, new_length)
    IN IF dest = -1 THEN [exc |-> "NoSpace", blob |-> blob]
       ELSE [exc |-> None,
             blob |-> [blob EXCEPT !.buffer = rewritten,
                                   !.entries[eid].address = dest,
                                   !.entries[eid].size = new_length]]

\* NestedBuffer.set_bytes on a view at base address `base` of `size` bytes
set_bytes_at(blob, base, size, offset, length, data) ==
    IF offset + length > size THEN [exc |-> "OutOfBounds", blob |-> blob]
    ELSE IF Len(data) # length THEN [exc |-> "LengthMismatch", blob |-> blob]
    ELSE [exc |-> None, blob |-> [blob EXCEPT !.buffer = Write(blob.buffer, base + offset, data)]]

set_bytes(blob, eid, offset, length, data) ==
    set_bytes_at(blob, blob.entries[eid].address, blob.entries[eid].size, offset, length, data)

(***************************************************************************)
(* psptool2 main                                                           *)
(***************************************************************************)
Some(v) == <<v>>
Nothing == <<>>

\* lines 62-63
all_given_but_outfile(a) ==
    a.directory_index # Nothing /\ a.entry_index # Nothing /\ a.subfile # None

all_given(a) ==
    a.directory_index # Nothing /\ a.entry_index # Nothing /\ a.subfile # None
    /\ a.outfile # None

Outcome(files, psp, out, exc, cs, wr) ==
    [fs |-> files, pt |-> psp, stdout |-> out, raised |-> exc, calls |-> cs, wrote |-> wr]

\* lines 64-71 with the order of move_buffer and set_bytes exchanged
replace_entry_set_first(a, files, psp, pick) ==
    LET cs0 == <<"from_file", "open_subfile">>
    IN IF ~files[a.subfile].exists
       THEN Outcome(files, psp, <<>>, "FileNotFoundError", cs0, <<>>)
       ELSE
       LET sub_binary == files[a.subfile].data
           d == a.directory_index[1]
           e == a.entry_index[1]
           cs1 == Append(cs0, "resolve")
       IN IF ~InRange(psp.blob.directories, d)
             \/ ~InRange(PyGet(psp.blob.directories, d).entries, e)
          THEN Outcome(files, psp, <<>>, "IndexError", cs1, <<>>)
          ELSE
          LET entry == PyGet(PyGet(psp.blob.directories, d).entries, e)
              s == set_bytes(psp.blob, entry, 0, Len(sub_binary), sub_binary)
              cs2 == Append(cs1, "set_bytes")
          IN IF s.exc # None
             THEN Outcome(files, [psp EXCEPT !.blob = s.blob], <<>>, s.exc, cs2, <<>>)
             ELSE
             LET m == move_buffer(s.blob, entry, get_address(s.blob, entry), Len(sub_binary), pick)
                 cs3 == Append(cs2, "move_buffer")
             IN IF m.exc # None
                THEN Outcome(files, [psp EXCEPT !.blob = m.blob], <<>>, m.exc, cs3, <<>>)
                ELSE
                LET psp2 == [psp EXCEPT !.blob = m.blob]
                    w == to_file(files, psp2, a.outfile)
                IN Outcome(w.fs, psp2, <<>>, w.exc, Append(cs3, "to_file"), w.wrote)

\* lines 64-71 without the call of move_buffer
replace_entry_no_move(a, files, psp, pick) ==
    LET cs0 == <<"from_file", "open_subfile">>
    IN IF ~files[a.subfile].exists
       THEN Outcome(files, psp, <<>>, "FileNotFoundError", cs0, <<>>)
       ELSE
       LET sub_binary == files[a.subfile].data
           d == a.directory_index[1]
           e == a.entry_index[1]
           cs1 == Append(cs0, "resolve")
       IN IF ~InRange(psp.blob.directories, d)
             \/ ~InRange(PyGet(psp.blob.directories, d).entries, e)
          THEN Outcome(files, psp, <<>>, "IndexError", cs1, <<>>)
          ELSE
          LET entry == PyGet(PyGet(psp.blob.directories, d).entries, e)
              cs2 == Append(cs1, "move_buffer")
              s == set_bytes(psp.blob, entry, 0, Len(sub_binary), sub_binary)
              cs3 == Append(cs2, "set_bytes")
          IN IF s.exc # None
             THEN Outcome(files, [psp EXCEPT !.blob = s.blob], <<>>, s.exc, cs3, <<>>)
             ELSE
             LET psp2 == [psp EXCEPT !.blob = s.blob]
                 w == to_file(files, psp2, a.outfile)
             IN Outcome(w.fs, psp2, <<>>, w.exc, Append(cs3, "to_file"), w.wrote)

\* lines 64-71 with set_bytes called on the blob instead of the entry
replace_entry_blob_write(a, files, psp, pick) ==
    LET cs0 == <<"from_file", "open_subfile">>
    IN IF ~files[a.subfile].exists
       THEN Outcome(files, psp, <<>>, "FileNotFoundError", cs0, <<>>)
       ELSE
       LET sub_binary == files[a.subfile].data
           d == a.directory_index[1]
           e == a.entry_index[1]
           cs1 == Append(cs0, "resolve")
       IN IF ~InRange(psp.blob.directories, d)
             \/ ~InRange(PyGet(psp.blob.directories, d).entries, e)
          THEN Outcome(files, psp, <<>>, "IndexError", cs1, <<>>)
          ELSE
          LET entry == PyGet(PyGet(psp.blob.directories, d).entries, e)
              m == move_buffer(psp.blob, entry, get_address(psp.blob, entry), Len(sub_binary), pick)
              cs2 == Append(cs1, "move_buffer")
          IN IF m.exc # None
             THEN Outcome(files, [psp EXCEPT !.blob = m.blob], <<>>, m.exc, cs2, <<>>)
             ELSE
             LET s == set_bytes_at(m.blob, 0, Len(m.blob.buffer), 0, Len(sub_binary), sub_binary)
                 cs3 == Append(cs2, "set_bytes")
             IN IF s.exc # None
                THEN Outcome(files, [psp EXCEPT !.blob = s.blob], <<>>, s.exc, cs3, <<>>)
                ELSE
                LET psp2 == [psp EXCEPT !.blob = s.blob]
                    w == to_file(files, psp2, a.outfile)
                IN Outcome(w.fs, psp2, <<>>, w.exc, Append(cs3, "to_file"), w.wrote)

\* lines 64-71: read the payload, resolve the entry, move_buffer, set_bytes,
\* to_file; an exception ends main at the call that raised it
replace_entry(a, files, psp, pick) ==
    LET cs0 == <<"from_file", "open_subfile">>
    IN IF ~files[a.subfile].exists
       THEN Outcome(files, psp, <<>>, "FileNotFoundError", cs0, <<>>)
       ELSE
       LET sub_binary == files[a.subfile].data
           d == a.directory_index[1]
           e == a.entry_index[1]
           cs1 == Append(cs0, "resolve")
       IN IF ~InRange(psp.blob.directories, d)
             \/ ~InRange(PyGet(psp.blob.directories, d).entries, e)
          THEN Outcome(files, psp, <<>>, "IndexError", cs1, <<>>)
          ELSE
          LET entry == PyGet(PyGet(psp.blob.directories, d).entries, e)
              m == move_buffer(psp.blob, entry, get_address(psp.blob, entry), Len(sub_binary), pick)
              cs2 == Append(cs1, "move_buffer")
          IN IF m.exc # None
             THEN Outcome(files, [psp EXCEPT !.blob = m.blob], <<>>, m.exc, cs2, <<>>)
             ELSE
             LET s == set_bytes(m.blob, entry, 0, Len(sub_binary), sub_binary)
                 cs3 == Append(cs2, "set_bytes")
             IN IF s.exc # None
                THEN Outcome(files, [psp EXCEPT !.blob = s.blob], <<>>, s.exc, cs3, <<>>)
                ELSE
                LET psp2 == [psp EXCEPT !.blob = s.blob]
                    w == to_file(files, psp2, a.outfile)
                IN Outcome(w.fs, psp2, <<>>, w.exc, Append(cs3, "to_file"), w.wrote)

Usage == [kind |-> "usage", ids |-> <<>>, verbose |-> FALSE, rows |-> <<>>]

\* lines 58-75
main(a, files, layout, pick) ==
    LET l == from_file(files, a.file, layout)
    IN IF l.exc # None
       THEN Outcome(files, l.pt, <<>>, l.exc, <<"from_file">>, <<>>)
       ELSE IF a.replace_entry
       THEN IF all_given(a)
            THEN replace_entry(a, files, l.pt, pick)
            ELSE Outcome(files, l.pt, <<Usage>>, None, <<"from_file", "print_help">>, <<>>)
       ELSE LET r == ls(l.pt.blob, FALSE)
            IN Outcome(files, l.pt, r.out, r.exc, <<"from_file", "ls">>, <<>>)

(***************************************************************************)
(* The library interface as a state machine: a PSPTool is loaded, listed   *)
(* any number of times and written back.                                   *)
(***************************************************************************)
CfIdle == cf_args = NoArgs /\ cf_result = NoResult /\ fet_base = 0

NoMainArgs ==
    [file |-> None, replace_entry |-> FALSE, directory_index |-> Nothing,
     entry_index |-> Nothing, subfile |-> None, outfile |-> None]

InitFs(layout, sub, out) ==
    [n \in FileNames |->
        IF n = "rom" THEN File(Build(layout))
        ELSE IF n = "sub" THEN sub
        ELSE IF n = "out" THEN out
        ELSE NoFile]

ApiLayouts == Layouts({1}, {0}, EntryClasses, {0})

InitApi ==
    /\ CfIdle
    /\ rom_layout \in ApiLayouts
    /\ \E out \in {NoFile, File(<<7>>)} : fs = InitFs(rom_layout, NoFile, out)
    /\ pt = NoPt
    /\ input_bytes = <<>>
    /\ stdout = <<>>
    /\ raised = None
    /\ args = NoMainArgs
    /\ calls = <<>>
    /\ wrote = <<>>

FromFile ==
    \E filename \in {"rom", "nodir/x"} :
        LET r == from_file(fs, filename, rom_layout)
        IN /\ raised' = r.exc
           /\ IF r.exc = None
              THEN pt' = r.pt /\ input_bytes' = fs[filename].data /\ wrote' = <<>>
              ELSE UNCHANGED <<pt, input_bytes, wrote>>
           /\ UNCHANGED <<fs, rom_layout, stdout, args, calls>>
           /\ UNCHANGED cf_vars

Ls ==
    /\ pt.loaded
    /\ \E verbose \in BOOLEAN :
        LET r == ls(pt.blob, verbose)
        IN /\ stdout' = r.out
           /\ raised' = r.exc
           /\ UNCHANGED <<fs, rom_layout, pt, input_bytes, args, calls, wrote>>
           /\ UNCHANGED cf_vars

LsDir ==
    /\ pt.loaded
    /\ \E f \in DOMAIN pt.blob.fets, directory_index \in -1..2, verbose \in BOOLEAN :
        LET r == ls_dir(pt.blob, pt.blob.fets[f], directory_index, verbose)
        IN /\ stdout' = r.out
           /\ raised' = r.exc
           /\ UNCHANGED <<fs, rom_layout, pt, input_bytes, args, calls, wrote>>
           /\ UNCHANGED cf_vars

LsEntries ==
    /\ pt.loaded
    /\ \E verbose \in BOOLEAN :
        LET r == ls_entries(pt.blob, None, verbose)
        IN /\ stdout' = r.out
           /\ raised' = r.exc
           /\ UNCHANGED <<fs, rom_layout, pt, input_bytes, args, calls, wrote>>
           /\ UNCHANGED cf_vars

ToFile ==
    /\ pt.loaded
    /\ \E filename \in {"out", "rom", "nodir/x"} :
        LET w == to_file(fs, pt, filename)
        IN /\ fs' = w.fs
           /\ raised' = w.exc
           /\ wrote' = IF w.exc = None THEN w.wrote ELSE wrote
           /\ UNCHANGED <<rom_layout, pt, input_bytes, stdout, args, calls>>
           /\ UNCHANGED cf_vars

NextApi == FromFile \/ Ls \/ LsDir \/ LsEntries \/ ToFile

SpecApi == InitApi /\ [][NextApi]_vars

(***************************************************************************)
(* One run of the command line.                                            *)
(***************************************************************************)
Payload(n) == [i \in 1..n |-> 160 + i]

MainLayouts == Layouts(1..2, 0..1, {PlainClass}, 0..MaxFree)

MainArgs ==
    [file : {"rom", "nodir/x"},
     replace_entry : {FALSE},
     directory_index : {Nothing, Some(0)},
     entry_index : {Nothing, Some(0)},
     subfile : {None, "sub"},
     outfile : {None, "out"}]
    \cup
    [file : {"rom", "nodir/x"},
     replace_entry : {TRUE},
     directory_index : {Nothing, Some(-1), Some(0), Some(2)},
     entry_index : {Nothing, Some(0), Some(1)},
     subfile : {None, "sub"},
     outfile : {None, "out", "nodir/x"}]

\* the allocator's choice matters only to a run that reaches move_buffer
Picks(a) ==
    IF a.file = "rom" /\ a.replace_entry /\ a.directory_index # Nothing
       /\ a.entry_index # Nothing /\ a.subfile # None
    THEN 0..rom_layout.length ELSE {0}

InitMain ==
    /\ CfIdle
    /\ rom_layout \in MainLayouts
    /\ \E sub \in {NoFile} \cup {File(Payload(n)) : n \in 0..MaxPayload} :
          fs = InitFs(rom_layout, sub, NoFile)
    /\ pt = NoPt
    /\ input_bytes = <<>>
    /\ stdout = <<>>
    /\ raised = None
    /\ args = NoMainArgs
    /\ calls = <<>>
    /\ wrote = <<>>

Main ==
    /\ calls = <<>>
    /\ \E a \in MainArgs : \E pick \in Picks(a) :
        LET r == main(a, fs, rom_layout, pick)
        IN /\ args' = a
           /\ fs' = r.fs
           /\ pt' = r.pt
           /\ input_bytes' = IF r.pt.loaded THEN fs[a.file].data ELSE <<>>
           /\ stdout' = r.stdout
           /\ raised' = r.raised
           /\ calls' = r.calls
           /\ wrote' = r.wrote
           /\ UNCHANGED rom_layout
           /\ UNCHANGED cf_vars

NextMain == Main

SpecMain == InitMain /\ [][NextMain]_vars

(***************************************************************************)
(* Properties of create_file                                               *)
(***************************************************************************)
CfCalled == cf_result.exc # "NotCalled"

DefaultVersions ==
    { <<bytes(<<33, 49, 48>>), bytes(<<66>>)>>, <<str(<<33, 49, 48>>), str(<<66>>)>> }

\* the AGESA header create_file writes at offset 0
AgesaHeader(agesa_version) ==
    AGESA_MAGIC \o Join([AGESA_VERSION_STRUCTURE EXCEPT ![2] = agesa_version[1].chars,
                                                        ![4] = agesa_version[2].chars])

RunStart(r, k) == RunsLen(SubSeq(r, 1, k - 1))

\* the byte at 0-based offset p
RunsAt(r, p) ==
    LET k == CHOOSE k \in 1..Len(r) : RunStart(r, k) <= p /\ p < RunStart(r, k) + r[k].n
    IN r[k].b

\* every byte outside [0, hdr) and [base, base + mlen) is 0xFF
OutsideAllFF(r, hdr, base, mlen) ==
    \A k \in 1..Len(r) :
        r[k].b # 255 =>
            \/ RunStart(r, k) + r[k].n <= hdr
            \/ (RunStart(r, k) >= base /\ RunStart(r, k) + r[k].n <= base + mlen)

\* C1: create_file with rom_len = 0x1000000 and the default version
\* ('!10', 'B') returns a PSPTool without raising, and every byte of the
\* buffer outside the AGESA header and the table magic is 0xFF.
C1_DefaultsSucceed ==
    (CfCalled /\ cf_args.rom_len = 16777216 /\ cf_args.agesa_version \in DefaultVersions) =>
        /\ cf_result.exc = None
        /\ cf_result.pt
        /\ OutsideAllFF(cf_result.buffer, Len(AgesaHeader(cf_args.agesa_version)),
                        fet_base, Len(FIRMWARE_ENTRY_MAGIC))

\* C2: every rom_len other than 0x1000000 is refused with the
\* unsupported-size error, whatever the version, before a buffer is
\* allocated or a PSPTool is constructed.
C2_UnsupportedSize ==
    (CfCalled /\ cf_args.rom_len # 16777216) =>
        /\ cf_result.exc = "NotImplementedError"
        /\ ~cf_result.allocated
        /\ ~cf_result.pt
        /\ cf_result.writes = 0

C2_Witness ==
    /\ CfCalled
    /\ cf_args.rom_len = 8388608
    /\ cf_args.agesa_version = <<str(<<33, 49, 48>>), str(<<66>>)>>
    /\ cf_result.exc = "NotImplementedError"

WellFormedFirst(f) == Len(f.chars) = 3 /\ f.chars[1] = 33

\* C3: with rom_len = 0x1000000, a version that has not exactly two parts,
\* or whose first part is not '!' followed by exactly 2 characters, is
\* refused with the invalid-version error before any byte is written.
C3_InvalidVersion ==
    (/\ CfCalled
     /\ cf_args.rom_len = 16777216
     /\ \/ Len(cf_args.agesa_version) # 2
        \/ ~WellFormedFirst(cf_args.agesa_version[1])) =>
        /\ cf_result.exc = "ValueError"
        /\ ~cf_result.allocated
        /\ cf_result.writes = 0
        /\ ~cf_result.pt

C3_Witness ==
    /\ CfCalled
    /\ cf_args.rom_len = 16777216
    /\ cf_args.agesa_version = <<str(<<33, 49>>), str(<<66>>)>>
    /\ cf_result.exc = "ValueError"

C4_RoundTrip ==
    wrote # <<>> =>
        /\ fs[wrote[1]].exists
        /\ fs[wrote[1]].data = input_bytes
        /\ pt.blob.buffer = input_bytes

C4_Witness ==
    /\ wrote = <<"out">>
    /\ stdout # <<>>
    /\ Len(input_bytes) > 3
    /\ fs["out"].data = input_bytes

Filled(r) == \A c \in 1..3 : r.ext[c] # Empty
Absent(r) == \A c \in 1..3 : r.ext[c] = Empty

Done == calls # <<>>

\* the files before main ran: main never writes the payload file
InitialFs == InitFs(rom_layout, fs["sub"], NoFile)

AllFour(a) ==
    /\ a.directory_index # Nothing
    /\ a.entry_index # Nothing
    /\ a.subfile # None
    /\ a.outfile # None

ReplaceOrder == <<"from_file", "open_subfile", "resolve", "move_buffer", "set_bytes", "to_file">>

IsPrefix(p, q) == Len(p) <= Len(q) /\ SubSeq(q, 1, Len(p)) = p

Called(name) == \E i \in 1..Len(calls) : calls[i] = name

\* the replace-entry workflow ran to its end
Completed ==
    /\ Done
    /\ args.replace_entry
    /\ AllFour(args)
    /\ raised = None
    /\ Called("to_file")

TheEntry ==
    PyGet(PyGet(pt.blob.directories, args.directory_index[1]).entries, args.entry_index[1])

\* C5: after the replace-entry workflow the entry's new range lies within
\* the arena, and in every directory that references the entry the
\* descriptor's size field is len(payload) and its address field is the
\* entry's final address.
C5_Replaced ==
    Completed =>
        LET e == pt.blob.entries[TheEntry]
            n == Len(fs["sub"].data)
            out == fs[args.outfile].data
        IN /\ e.address >= 0
           /\ e.address + n <= Len(out)
           /\ e.size = n
           /\ \A kj \in References(pt.blob, TheEntry) :
                 /\ out[DescAddrOff(pt.blob.directories[kj[1]], kj[2]) + 1] = e.address
                 /\ out[DescSizeOff(pt.blob.directories[kj[1]], kj[2]) + 1] = n

C5_Witness ==
    /\ Completed
    /\ Cardinality(References(pt.blob, TheEntry)) = 2
    /\ Len(fs["sub"].data) > rom_layout.entries[TheEntry].size
    /\ pt.blob.entries[TheEntry].address # rom_layout.entries[TheEntry].address

\* C6: the steps of the workflow occur in the order resolve, move_buffer,
\* set_bytes, to_file, each only after the one before it succeeded; a file
\* is written only by a run whose every step succeeded, and a run that
\* failed leaves the files as they were.
C6_Order ==
    (Done /\ args.replace_entry /\ AllFour(args)) =>
        /\ IsPrefix(calls, ReplaceOrder)
        /\ wrote # <<>> <=> (calls = ReplaceOrder /\ raised = None)
        /\ raised = None => calls = ReplaceOrder
        /\ wrote = <<>> => fs = InitialFs
        /\ wrote # <<>> => wrote = <<args.outfile>>

C6_Witness ==
    /\ Done /\ args.replace_entry /\ AllFour(args)
    /\ raised = "NoSpace"
    /\ calls = SubSeq(ReplaceOrder, 1, 4)
    /\ fs = InitialFs

\* C7 as stated: with --replace-entry and one of the four options missing,
\* main prints usage, writes no file and calls neither move_buffer nor
\* set_bytes; without --replace-entry it only lists and writes no file.
C7_UsageAlways ==
    /\ (Done /\ args.replace_entry /\ ~AllFour(args)) =>
          /\ stdout = <<Usage>>
          /\ wrote = <<>> /\ fs = InitialFs
          /\ ~Called("move_buffer") /\ ~Called("set_bytes") /\ ~Called("to_file")
          /\ pt.loaded => pt.blob.buffer = input_bytes
    /\ (Done /\ ~args.replace_entry) =>
          /\ wrote = <<>> /\ fs = InitialFs
          /\ calls \in {<<"from_file">>, <<"from_file", "ls">>}
          /\ pt.loaded => pt.blob.buffer = input_bytes

\* C7 amended: the same, except that usage is printed when the ROM file
\* was loaded; when loading it fails main ends with that error and prints
\* nothing.
C7_UsageWhenLoaded ==
    /\ (Done /\ args.replace_entry /\ ~AllFour(args)) =>
          /\ pt.loaded => (stdout = <<Usage>> /\ raised = None)
          /\ ~pt.loaded => (stdout = <<>> /\ raised = "FileNotFoundError")
          /\ wrote = <<>> /\ fs = InitialFs
          /\ ~Called("move_buffer") /\ ~Called("set_bytes") /\ ~Called("to_file")
          /\ pt.loaded => pt.blob.buffer = input_bytes
    /\ (Done /\ ~args.replace_entry) =>
          /\ wrote = <<>> /\ fs = InitialFs
          /\ calls \in {<<"from_file">>, <<"from_file", "ls">>}
          /\ pt.loaded => pt.blob.buffer = input_bytes

C7_Witness ==
    /\ Done /\ args.replace_entry
    /\ args.directory_index = Some(0) /\ args.entry_index = Some(0)
    /\ args.subfile = "sub" /\ args.outfile = None
    /\ fs["sub"].exists
    /\ Len(rom_layout.directories) > 0
    /\ stdout = <<Usage>>

\* offsets of the address and size fields of the descriptors of an entry
DescriptorFields(blob, eid) ==
    UNION { {DescAddrOff(blob.directories[kj[1]], kj[2]), DescSizeOff(blob.directories[kj[1]], kj[2])} :
            kj \in References(blob, eid) }

\* C8: the file written by the replace-entry workflow has the length of
\* the input and differs from it only inside the entry's old and new
\* content ranges and inside the address and size fields of the
\* descriptors that reference the entry.
C8_Frame ==
    Completed =>
        LET out == fs[args.outfile].data
            allowed == EntryRange(rom_layout.entries[TheEntry])
                       \cup EntryRange(pt.blob.entries[TheEntry])
                       \cup DescriptorFields(pt.blob, TheEntry)
        IN /\ Len(out) = Len(input_bytes)
           /\ \A q \in 1..Len(out) : out[q] # input_bytes[q] => (q - 1) \in allowed

C8_Witness ==
    /\ Completed
    /\ Len(rom_layout.entries) = 2
    /\ pt.blob.entries[TheEntry].address # rom_layout.entries[TheEntry].address
    /\ \E q \in 1..Len(input_bytes) : fs[args.outfile].data[q] # input_bytes[q]
    /\ \E q \in 1..Len(input_bytes) :
          /\ q - 1 \in EntryRange(rom_layout.entries[3 - TheEntry])
          /\ fs[args.outfile].data[q] = input_bytes[q]

====
